---- MODULE Spec2Model ----
(* Retrieval engine of the book-search pipeline: src/src/retrieval/engine.py    *)
(* (SemanticSearchEngine), its process-wide embedding-model cache, and the     *)
(* HTTP handlers of src/src/api/main.py that call it, and the offline commands *)
(* that write its files: src/src/embedding/embed_books.py and                  *)
(* src/src/retrieval/build_faiss_index.py.                                     *)
(*                                                                             *)
(* Vectors are two-dimensional fixed-point vectors: Unit stands for 1.0, so    *)
(* <<3,4>> and <<5,0>> are unit vectors and an inner product of Unit*Unit is   *)
(* the score 1.0. Row positions are 0-based as in the source, with -1 the      *)
(* label FAISS reports for a slot it could not fill.                           *)
EXTENDS Integers, Sequences, FiniteSets, TLC

VARIABLES
    files,      \* the artefacts on disk: index vectors, metadata rows, content rows
    engine,     \* api/main.py global `engine`: NoEngine or a loaded SemanticSearchEngine
    cache,      \* engine.py _LOCAL_MODEL_CACHE: model identifier -> model object (0 = no entry)
    loads,      \* per identifier, how many times SentenceTransformer(identifier) has returned
    returned,   \* per identifier, the model objects _get_model has handed to its callers
    pc,         \* per thread, its position inside the call it is executing
    mdl,        \* per thread, the local model object of _get_model/_embed_text
    obs,        \* the outcome of the call that just completed, until its caller takes it
    job,        \* the offline commands: the locals of embed_books main, the last exit
    call        \* the locals of one embed_texts_openai call

vars == <<files, engine, cache, loads, returned, pc, mdl, obs, job, call>>

-----------------------------------------------------------------------------
(* Bounds *)

MaxN == 3          \* rows in the index / metadata table
MaxTopk == 2       \* largest topk a caller passes
MaxRuns == 2       \* runs of embed_books against one output file

Threads == {"t1", "t2"}    \* request threads
MainThread == "t1"         \* the caller where calls do not overlap
Topks == 1..MaxTopk
\* the k a request carries: the request model of api/main.py and the k parameter
\* of /similar declare no bound
RequestKs == {0} \cup Topks
MaxK == 50         \* api/schemas.py: k: int = Field(10, ge=1, le=50)

Unit == 5          \* fixed-point 1.0

Keys == {"A", "B", "C", "D", "E"}
AbsentKey == "Z"
QueryKeys == Keys \cup {AbsentKey}
DefaultModel == "all-MiniLM-L6-v2"
ModelIds == {DefaultModel, "other-model"}

\* the embedding of each book's text as the embeddings table holds it: A, B and C
\* have identical texts (C's vector was stored without normalisation), E's is the
\* zero vector
CatalogVec ==
    [k \in Keys |-> IF k = "C" THEN <<10, 0>> ELSE IF k = "D" THEN <<8, 6>>
                    ELSE IF k = "E" THEN <<0, 0>> ELSE <<5, 0>>]
\* the query strings of the requests, the empty one among them, and what
\* model.encode hands back for each
QueryTexts == {"", "rust", "void"}
Encode(query) ==
    IF query = "" THEN <<5, 0>> ELSE IF query = "rust" THEN <<6, 8>> ELSE <<0, 0>>
\* what model.encode may hand back for a query text before the defensive normalisation
RawQueryVecs == {Encode(query) : query \in QueryTexts}

NullText == <<"NaN">>  \* a null description (pandas NaN / None)
NoCover == -1          \* a null cover id (None / NaN); real cover ids are >= 0
NullTitle == "NaN"     \* a null cell of the title column (None)
NoEngine == [embedding_model |-> "none"]
NoObs == [op |-> "none"]

-----------------------------------------------------------------------------
(* Sequence helpers *)

Range(s) == {s[i] : i \in 1..Len(s)}

Take(s, n) == SubSeq(s, 1, IF n < Len(s) THEN n ELSE Len(s))

Min(a, b) == IF a < b THEN a ELSE b

-----------------------------------------------------------------------------
(* Vectors, the defensive normalisation and the FAISS flat inner-product index *)

Dot(a, b) == a[1] * b[1] + a[2] * b[2]

\* integer square root: the largest r with r*r <= x
ISqrt(x) == CHOOSE r \in 0..x : r * r <= x /\ (r + 1) * (r + 1) > x

\* np.linalg.norm(vec)
Norm(v) == ISqrt(Dot(v, v))

\* engine.py 63-66: vec / norm unless the norm is exactly zero
Normalize(v) ==
    IF Norm(v) # 0 THEN [i \in 1..2 |-> (v[i] * Unit) \div Norm(v)] ELSE v

\* mutant: the build stores the vectors as it read them
BuildNormalizeSkipped(v) == v

\* build_faiss_index lines 57-59: norms[norms == 0] = 1.0; vectors / norms
BuildNormalize(v) ==
    LET norm == IF Norm(v) = 0 THEN Unit ELSE Norm(v)
    IN  [i \in 1..2 |-> (v[i] * Unit) \div norm]

\* the score FAISS reports in a slot it could not fill: below every real score
PadScore == -(Unit * Unit) - 1
PadLabel == -1

Injective(s) == \A i, j \in DOMAIN s : s[i] = s[j] => i = j

\* the ways of listing m different rows out of n
RowLists ==
    [n \in 0..MaxN, m \in 0..MaxN |->
        {s \in [1..m -> 0..(n - 1)] : Injective(s)}]

\* mutant: the index reports the rows of lowest inner product, lowest first
IndexSearchLowest(index, q, k) ==
    LET n == Len(index)
        m == Min(k, n)
        sc == [r \in 0..(n - 1) |-> Dot(q, index[r + 1])]
        worst == {s \in RowLists[n, m] :
                    /\ \A i \in 1..(m - 1) : sc[s[i]] <= sc[s[i + 1]]
                    /\ m > 0 => \A r \in 0..(n - 1) :
                                   r \notin Range(s) => sc[r] >= sc[s[m]]}
    IN  {[i \in 1..k |-> IF i <= m THEN [score |-> sc[s[i]], idx |-> s[i]]
                                   ELSE [score |-> PadScore, idx |-> PadLabel]]
            : s \in worst}

\* index.search(query_vector, k) on an IndexFlatIP of Len(index) vectors: k slots,
\* the min(k, ntotal) best rows by inner product in descending score order, the
\* order among exactly tied rows being the library's own, and the slots that
\* cannot be filled carrying label -1.
IndexSearch(index, q, k) ==
    LET n == Len(index)
        m == Min(k, n)
        sc == [r \in 0..(n - 1) |-> Dot(q, index[r + 1])]
        best == {s \in RowLists[n, m] :
                    /\ \A i \in 1..(m - 1) : sc[s[i]] >= sc[s[i + 1]]
                    /\ m > 0 => \A r \in 0..(n - 1) :
                                   r \notin Range(s) => sc[r] <= sc[s[m]]}
    IN  {[i \in 1..k |-> IF i <= m THEN [score |-> sc[s[i]], idx |-> s[i]]
                                   ELSE [score |-> PadScore, idx |-> PadLabel]]
            : s \in best}

\* mutant: the vector of the first row is handed back for every row
ReconstructFirstRow(index, idx) == index[1]

\* index.reconstruct(idx): the stored vector of that row
Reconstruct(index, idx) == index[idx + 1]

-----------------------------------------------------------------------------
(* pandas row access *)

\* DataFrame.iloc[i] accepts -len..len-1 and counts negative positions from the end
IlocOk(rows, i) == -Len(rows) <= i /\ i < Len(rows)

Iloc(rows, i) == IF i >= 0 THEN rows[i + 1] ELSE rows[Len(rows) + i + 1]

MetaKeys(meta) == {meta.rows[i].key : i \in 1..Len(meta.rows)}

\* self.meta[self.meta["key"] == key].index[0]: the first row holding the key
FirstRowOf(meta, key) ==
    CHOOSE i \in 0..(Len(meta.rows) - 1) :
        /\ meta.rows[i + 1].key = key
        /\ \A j \in 0..(i - 1) : meta.rows[j + 1].key # key

-----------------------------------------------------------------------------
(* SemanticSearchEngine: the pure part of each method *)

DefaultMaxLen == 600       \* _get_snippet(key, max_len=600)
DefaultN == 180            \* get_snippet(book_id, n=180)
Ellipsis == <<".", ".", ".">>
SnippetLens == {0, 2, DefaultN}   \* the max lengths callers pass to get_snippet

\* self.joined[self.joined["key"] == key]
JoinedMatch(joined, key) == SelectSeq(joined, LAMBDA row : row.key = key)

\* mutant: the text is not cut
GetSnippetUncut(eng, key, max_len) ==
    LET match == JoinedMatch(eng.joined, key)
    IN  IF match = <<>> THEN <<>>
        ELSE LET val == match[1].description
                 text == IF val = NullText THEN <<>> ELSE val
             IN  text \o (IF Len(text) > max_len THEN Ellipsis ELSE <<>>)

\* _get_snippet(key, max_len): text[:max_len] + ("..." if len(text) > max_len else "")
GetSnippet(eng, key, max_len) ==
    LET match == JoinedMatch(eng.joined, key)
    IN  IF match = <<>> THEN <<>>
        ELSE LET val == match[1].description
                 text == IF val = NullText THEN <<>> ELSE val
             IN  Take(text, max_len) \o (IF Len(text) > max_len THEN Ellipsis ELSE <<>>)

\* mutant: a null description is turned into text
GetDescriptionNullAsText(eng, key) ==
    LET match == JoinedMatch(eng.joined, key)
    IN  IF match = <<>> THEN <<>> ELSE match[1].description

\* get_description(key)
GetDescription(eng, key) ==
    LET match == JoinedMatch(eng.joined, key)
    IN  IF match = <<>> THEN <<>>
        ELSE IF match[1].description = NullText THEN <<>> ELSE match[1].description

\* the title of a result row: the column's value, "" when the table has no title column
TitleAt(meta, i) == IF "title" \in meta.cols THEN Iloc(meta.rows, i).title ELSE ""

\* the cover id of a result row: int(cover_i) if cover_i and not isna(cover_i) else None
CoverAt(meta, i) ==
    LET c == IF "cover_i" \in meta.cols THEN Iloc(meta.rows, i).cover_i ELSE NoCover
    IN  IF c # NoCover /\ c # 0 THEN c ELSE NoCover

\* mutant: the encoder's vector is used as it came
EmbedTextRaw(raw) == raw

\* _embed_text: encode, then the defensive re-normalisation
EmbedText(raw) == Normalize(raw)

\* mutant: the results are put together last row first
TextResultsReversed(eng, answer) ==
    [i \in 1..Len(answer) |->
        LET a == answer[Len(answer) + 1 - i]
            key == Iloc(eng.meta.rows, a.idx).key
        IN  [book_id |-> key,
             title |-> TitleAt(eng.meta, a.idx),
             score |-> a.score,
             snippet |-> GetSnippet(eng, key, DefaultMaxLen),
             cover_i |-> CoverAt(eng.meta, a.idx)]]

\* the loop of search_by_text over zip(scores[0], indices[0])
TextResults(eng, answer) ==
    [i \in 1..Len(answer) |->
        LET key == Iloc(eng.meta.rows, answer[i].idx).key
        IN  [book_id |-> key,
             title |-> TitleAt(eng.meta, answer[i].idx),
             score |-> answer[i].score,
             snippet |-> GetSnippet(eng, key, DefaultMaxLen),
             cover_i |-> CoverAt(eng.meta, answer[i].idx)]]

\* search_by_text(query_text, topk) once the query is embedded and the index has
\* answered; index.search refuses k <= 0 (`assert k > 0`)
SearchByText(eng, qvec, topk, answer) ==
    IF topk <= 0
    THEN [op |-> "search_by_text", outcome |-> "AssertionError", topk |-> topk,
          qvec |-> qvec, vecOps |-> <<"encode", "normalize">>]
    ELSE IF \E i \in 1..Len(answer) : ~IlocOk(eng.meta.rows, answer[i].idx)
    THEN [op |-> "search_by_text", outcome |-> "IndexError", topk |-> topk,
          qvec |-> qvec, vecOps |-> <<"encode", "normalize">>, answer |-> answer]
    ELSE [op |-> "search_by_text", outcome |-> "ok", topk |-> topk,
          qvec |-> qvec, vecOps |-> <<"encode", "normalize">>, answer |-> answer,
          results |-> TextResults(eng, answer)]

\* mutant: the loop keeps the seed's row
KeyResultsNoSkip(eng, key, answer) ==
    [i \in 1..Len(answer) |->
        LET result_key == Iloc(eng.meta.rows, answer[i].idx).key
        IN  [book_id |-> result_key,
             title |-> TitleAt(eng.meta, answer[i].idx),
             score |-> answer[i].score,
             snippet |-> GetSnippet(eng, result_key, DefaultMaxLen)]]

\* the loop of search_by_key: rows whose key is the seed key are skipped
KeyResults(eng, key, answer) ==
    LET kept == SelectSeq(answer,
                    LAMBDA a : Iloc(eng.meta.rows, a.idx).key # key)
    IN  [i \in 1..Len(kept) |->
            LET result_key == Iloc(eng.meta.rows, kept[i].idx).key
            IN  [book_id |-> result_key,
                 title |-> TitleAt(eng.meta, kept[i].idx),
                 score |-> kept[i].score,
                 snippet |-> GetSnippet(eng, result_key, DefaultMaxLen)]]

\* the key check of search_by_key: `key not in set(self.meta["key"])`
KeyKnown(eng, key) == key \in MetaKeys(eng.meta)

\* search_by_key(key, topk) for a known key, once the index has answered
SearchByKey(eng, key, topk, answer) ==
    LET idx == FirstRowOf(eng.meta, key)
        base == [op |-> "search_by_key", key |-> key, topk |-> topk, seedRow |-> idx,
                 qvec |-> Reconstruct(eng.index, idx), vecOps |-> <<"reconstruct">>,
                 answer |-> answer, indexOps |-> <<"reconstruct", "search">>]
    IN  IF \E i \in 1..Len(answer) : ~IlocOk(eng.meta.rows, answer[i].idx)
        THEN base @@ [outcome |-> "IndexError"]
        ELSE base @@ [outcome |-> "ok",
                      results |-> Take(KeyResults(eng, key, answer), topk)]

\* mutant: an unknown key is answered with an empty list
SearchByKeyUnknownEmpty(key, topk) ==
    [op |-> "search_by_key", key |-> key, topk |-> topk, outcome |-> "ok",
     indexOps |-> <<>>, results |-> <<>>]

\* search_by_key(key, topk) for a key the metadata table does not hold
SearchByKeyUnknown(key, topk) ==
    [op |-> "search_by_key", key |-> key, topk |-> topk, outcome |-> "ValueError",
     indexOps |-> <<>>]

\* what _load_resources raises on the files f: the reads happen in the order
\* index, metadata (with its key column), content
LoadError(f) ==
    IF "index" \notin f.present THEN "IndexReadError"
    ELSE IF "meta" \notin f.present THEN "MetaReadError"
    ELSE IF "key" \notin f.meta.cols THEN "KeyError"
    ELSE IF "joined" \notin f.present THEN "JoinedReadError"
    ELSE "none"

\* _load_resources: the three tables as read from disk, keys as strings
LoadResources(f, model) ==
    [embedding_model |-> model, index |-> f.index, meta |-> f.meta, joined |-> f.joined]

-----------------------------------------------------------------------------
(* The artefacts the offline pipeline leaves on disk *)

\* title column as embed_books writes it (fillna(""))
CatalogTitle ==
    [k \in Keys |-> IF k = "A" THEN "Alpha" ELSE IF k = "B" THEN "Beta"
                    ELSE IF k = "D" THEN "Delta" ELSE ""]

\* the content table: A has a description, B has a null one, C an empty one, the
\* others have no row
ContentTable ==
    << [key |-> "A", description |-> <<"a", "\n", "b", "c">>],
       [key |-> "B", description |-> NullText],
       [key |-> "C", description |-> <<>>] >>

NullEmbedding == <<>>      \* a null cell of the embedding column
AllResources == {"index", "meta", "joined"}

\* the row embed_books writes for a book (lines 214-223)
EmbRow(k) ==
    [key |-> k, title |-> CatalogTitle[k], cover_i |-> NoCover,
     embedding |-> CatalogVec[k]]

\* a row of the embeddings table whose embedding cell is null
NullRow(k) ==
    [key |-> k, title |-> CatalogTitle[k], cover_i |-> NoCover,
     embedding |-> NullEmbedding]

\* df.dropna(subset=["embedding"])
DropNa(emb) == SelectSeq(emb, LAMBDA r : r.embedding # NullEmbedding)

\* mutant: the metadata table is cut from the table as read, before dropna
BuildFaissIndexMetaUnfiltered(emb) ==
    LET df == DropNa(emb)
    IN  [index |-> [i \in 1..Len(df) |-> BuildNormalize(df[i].embedding)],
         meta |-> [cols |-> {"key", "title"},
                   rows |-> [i \in 1..Len(emb) |->
                               [key |-> emb[i].key, title |-> emb[i].title]]]]

\* build_faiss_index main, lines 44-74: rows with a null embedding are dropped, the
\* vectors normalised and added in row order, key and title written in that order
BuildFaissIndex(emb) ==
    LET df == DropNa(emb)
    IN  [index |-> [i \in 1..Len(df) |-> BuildNormalize(df[i].embedding)],
         meta |-> [cols |-> {"key", "title"},
                   rows |-> [i \in 1..Len(df) |->
                               [key |-> df[i].key, title |-> df[i].title]]]]

\* the files after embed_books has written the rows of ks and build_faiss_index
\* has run; nothing upstream rejects a key that occurs twice
FilesOf(ks) ==
    LET emb == [i \in 1..Len(ks) |-> EmbRow(ks[i])]
        built == BuildFaissIndex(emb)
    IN  [index |-> built.index, meta |-> built.meta, joined |-> ContentTable,
         embeddings |-> emb, present |-> AllResources]

\* cover ids as a metadata table with a cover_i column may hold them: an id, a
\* zero, a null
CatalogCover ==
    [k \in Keys |-> IF k = "A" THEN 7 ELSE IF k = "D" THEN 0 ELSE NoCover]

\* a metadata table for the keys ks with the columns cols, the titles of the keys
\* in nulls being null
MetaWith(ks, cols, nulls) ==
    [cols |-> cols,
     rows |-> [i \in 1..Len(ks) |->
                 [key |-> ks[i],
                  title |-> IF ks[i] \in nulls THEN NullTitle ELSE CatalogTitle[ks[i]],
                  cover_i |-> CatalogCover[ks[i]]]]]

\* files whose metadata table was not cut by build_faiss_index: without title
\* column, with a cover_i column, with a null title
EnrichFiles ==
    LET ks == <<"A", "B", "D">>
    IN  {[FilesOf(ks) EXCEPT !.meta = MetaWith(ks, cols, nulls)] :
            cols \in {{"key"}, {"key", "title"}, {"key", "title", "cover_i"}},
            nulls \in {{}, {"D"}}}

FilesOfSize(n) == {FilesOf(ks) : ks \in [1..n -> Keys]}

FilesUpTo(n) == UNION {FilesOfSize(k) : k \in 1..n}

-----------------------------------------------------------------------------
(* api/main.py: the handlers. An exception a handler does not catch reaches   *)
(* the framework, which answers 500.                                           *)

\* the response model SearchHit declares `title: str`: FastAPI validates what the
\* handler returns against it, and a null title does not pass
HitsValid(results) == \A i \in 1..Len(results) : results[i].title # NullTitle

\* /similar line 101: str(m.iloc[0].get("title", "") or "")
SeedTitle(title) == IF title = NullTitle THEN "" ELSE title

\* the hit the /search handler builds from one engine result (lines 66-82)
SearchHit(eng, r) ==
    [book_id |-> r.book_id, score |-> r.score, title |-> r.title, snippet |-> r.snippet,
     cover_i |-> r.cover_i,
     full_description |-> GetDescription(eng, r.book_id),
     cover_url |-> IF r.cover_i # NoCover /\ r.cover_i # 0 THEN r.cover_i ELSE NoCover]

\* the body of the /search handler after engine.search_by_text returned or raised
SearchResponse(eng, raw) ==
    IF raw.outcome # "ok"
    THEN [op |-> "api_search", status |-> 500, error |-> raw.outcome, raw |-> raw]
    ELSE IF ~HitsValid(raw.results)
    THEN [op |-> "api_search", status |-> 500, error |-> "ResponseValidationError",
          raw |-> raw]
    ELSE [op |-> "api_search", status |-> 200, k |-> raw.topk, raw |-> raw,
          results |-> [i \in 1..Len(raw.results) |-> SearchHit(eng, raw.results[i])]]

\* the body of the /similar handler after engine.search_by_key returned or raised
SimilarResponse(eng, raw) ==
    IF raw.outcome # "ok"
    THEN [op |-> "api_similar", status |-> 500, error |-> raw.outcome, raw |-> raw]
    ELSE IF ~HitsValid(raw.results)
    THEN [op |-> "api_similar", status |-> 500, error |-> "ResponseValidationError",
          raw |-> raw]
    ELSE [op |-> "api_similar", status |-> 200, k |-> raw.topk, raw |-> raw,
          seed |-> [book_id |-> raw.key, score |-> Unit * Unit,
                    title |-> IF KeyKnown(eng, raw.key) /\ "title" \in eng.meta.cols
                              THEN SeedTitle(Iloc(eng.meta.rows,
                                                  FirstRowOf(eng.meta, raw.key)).title)
                              ELSE "",
                    snippet |-> GetSnippet(eng, raw.key, DefaultN)],
          results |-> [i \in 1..Len(raw.results) |->
                          [book_id |-> raw.results[i].book_id,
                           score |-> raw.results[i].score,
                           title |-> raw.results[i].title,
                           snippet |-> raw.results[i].snippet]]]

-----------------------------------------------------------------------------
(* State machine *)

\* the two-book sample the cache specifications run on
SampleFiles == FilesOf(<<"A", "D">>)

\* no offline command has run
IdleJob == [pc |-> "idle", done |-> 0, total |-> 0, bs |-> 0, runs |-> 0, last |-> "none"]

\* no provider call is under way
NoCall ==
    [pc |-> "none", texts |-> <<>>, attempt |-> 0, backoff |-> 0, slept |-> <<>>,
     result |-> <<>>]

InitWith(F) ==
    /\ files \in F
    /\ engine = NoEngine
    /\ cache = [m \in ModelIds |-> 0]
    /\ loads = [m \in ModelIds |-> 0]
    /\ returned = [m \in ModelIds |-> {}]
    /\ pc = [t \in Threads |-> "idle"]
    /\ mdl = [t \in Threads |-> 0]
    /\ obs = NoObs
    /\ job = IdleJob
    /\ call = NoCall

Init == InitWith(FilesUpTo(MaxN))

InitSample == InitWith({SampleFiles})

AllIdle == \A t \in Threads : pc[t] = "idle"

\* mutant: a query drops the first row of the engine's metadata table
FrameDropsRow ==
    /\ engine' = IF engine # NoEngine /\ Len(engine.meta.rows) > 0
                 THEN [engine EXCEPT !.meta.rows = Tail(@)]
                 ELSE engine
    /\ UNCHANGED <<files, job, call>>

\* what a query leaves of the loaded resources: the class assigns self.index,
\* self.meta and self.joined in _load_resources only
Frame == UNCHANGED <<files, engine, job, call>>

\* the call returns or raises: its locals are gone, its outcome is with the caller
Finish(t, o) ==
    /\ obs = NoObs
    /\ pc' = [pc EXCEPT ![t] = "done"]
    /\ mdl' = [mdl EXCEPT ![t] = 0]
    /\ obs' = o

\* the caller has taken the outcome and is free for its next call
Return(t) ==
    /\ pc[t] = "done"
    /\ pc' = [pc EXCEPT ![t] = "idle"]
    /\ obs' = NoObs
    /\ UNCHANGED <<cache, loads, returned, mdl>>
    /\ Frame

\* mutant: the constructor hands out an engine whatever the loads did
ConstructUnchecked(m) ==
    /\ AllIdle
    /\ engine' = LoadResources(files, m)
    /\ UNCHANGED <<files, cache, loads, returned, pc, mdl, obs, job, call>>

\* SemanticSearchEngine(index_path, meta_path, joined_path, embedding_model)
\* where every load succeeds
Construct(m) ==
    /\ AllIdle
    /\ LoadError(files) = "none"
    /\ engine' = LoadResources(files, m)
    /\ UNCHANGED <<files, cache, loads, returned, pc, mdl, obs, job, call>>

\* SemanticSearchEngine(...) where a load raises: the exception leaves __init__
\* and the assignment of api/main.py line 14 does not happen
ConstructFail(m) ==
    /\ AllIdle
    /\ LoadError(files) # "none"
    /\ Finish(MainThread, [op |-> "construct", outcome |-> LoadError(files),
                            model |-> m])
    /\ UNCHANGED <<files, engine, cache, loads, returned, job, call>>

\* a thread enters _get_model: called directly (api/main.py line 22) or from
\* _embed_text (line 55) on behalf of search_by_text
GetModelEnter(t) ==
    /\ pc[t] = "idle"
    /\ engine # NoEngine
    /\ pc' = [pc EXCEPT ![t] = "check"]
    /\ UNCHANGED <<cache, loads, returned, mdl, obs>>
    /\ Frame

\* mutant: the cache is not consulted, every call constructs the model
GetModelCheckNoMemo(t) ==
    /\ pc[t] = "check"
    /\ pc' = [pc EXCEPT ![t] = "construct"]
    /\ UNCHANGED <<cache, loads, returned, mdl, obs>>
    /\ UNCHANGED <<files, engine, job, call>>

\* _get_model line 48: `if self.embedding_model not in _LOCAL_MODEL_CACHE`
GetModelCheck(t) ==
    /\ pc[t] = "check"
    /\ pc' = [pc EXCEPT ![t] = IF cache[engine.embedding_model] = 0 THEN "construct" ELSE "read"]
    /\ UNCHANGED <<cache, loads, returned, mdl, obs>>
    /\ Frame

\* _get_model lines 49-51, right-hand side: SentenceTransformer(...) returns a new object
ModelLoad(t) ==
    /\ pc[t] = "construct"
    /\ LET m == engine.embedding_model
       IN  /\ loads' = [loads EXCEPT ![m] = @ + 1]
           /\ mdl' = [mdl EXCEPT ![t] = loads[m] + 1]
    /\ pc' = [pc EXCEPT ![t] = "store"]
    /\ UNCHANGED <<cache, returned, obs>>
    /\ Frame

\* mutant: a failed load leaves an entry in the cache
ModelLoadFailLeavesEntry(t) ==
    /\ pc[t] = "construct"
    /\ Finish(t, [op |-> "get_model", outcome |-> "ModelError"])
    /\ cache' = [cache EXCEPT ![engine.embedding_model] = loads[engine.embedding_model] + 1]
    /\ UNCHANGED <<loads, returned>>
    /\ Frame

\* SentenceTransformer(...) raises: the exception leaves _get_model and its caller
ModelLoadFail(t) ==
    /\ pc[t] = "construct"
    /\ Finish(t, [op |-> "get_model", outcome |-> "ModelError"])
    /\ UNCHANGED <<cache, loads, returned>>
    /\ Frame

\* _get_model lines 49-51, the assignment into the cache
ModelStore(t) ==
    /\ pc[t] = "store"
    /\ cache' = [cache EXCEPT ![engine.embedding_model] = mdl[t]]
    /\ pc' = [pc EXCEPT ![t] = "read"]
    /\ UNCHANGED <<loads, returned, mdl, obs>>
    /\ Frame

\* _get_model line 52, returning to a direct caller
GetModelReturn(t) ==
    /\ pc[t] = "read"
    /\ LET m == engine.embedding_model
       IN  /\ returned' = [returned EXCEPT ![m] = @ \cup {cache[m]}]
           /\ Finish(t, [op |-> "get_model", outcome |-> "ok",
                         model |-> m, object |-> cache[m]])
    /\ UNCHANGED <<cache, loads>>
    /\ Frame

\* _get_model line 52, returning into _embed_text line 55
EmbedTextGotModel(t) ==
    /\ pc[t] = "read"
    /\ LET m == engine.embedding_model
       IN  /\ returned' = [returned EXCEPT ![m] = @ \cup {cache[m]}]
           /\ mdl' = [mdl EXCEPT ![t] = cache[m]]
    /\ pc' = [pc EXCEPT ![t] = "encode"]
    /\ UNCHANGED <<cache, loads, obs>>
    /\ Frame

\* model.encode raises inside _embed_text
EncodeFail(t) ==
    /\ pc[t] = "encode"
    /\ Finish(t, SearchResponse(engine, [op |-> "search_by_text", outcome |-> "EncodeError"]))
    /\ UNCHANGED <<cache, loads, returned>>
    /\ Frame

\* get_snippet(book_id, n)
GetSnippetCall(t) ==
    /\ pc[t] = "idle"
    /\ engine # NoEngine
    /\ \E key \in QueryKeys, n \in SnippetLens :
         Finish(t, [op |-> "get_snippet", key |-> key, n |-> n,
                    value |-> GetSnippet(engine, key, n)])
    /\ UNCHANGED <<cache, loads, returned>>
    /\ Frame

\* get_description(key)
GetDescriptionCall(t) ==
    /\ pc[t] = "idle"
    /\ engine # NoEngine
    /\ \E key \in QueryKeys :
         Finish(t, [op |-> "get_description", key |-> key,
                    value |-> GetDescription(engine, key)])
    /\ UNCHANGED <<cache, loads, returned>>
    /\ Frame

\* POST /search, lines 58-88, once the model is at hand: engine.search_by_text
\* (engine.py lines 95-119) and the response built from what it returns
ApiSearchCall(t) ==
    /\ pc[t] = "encode"
    /\ \E query \in QueryTexts, k \in RequestKs :
         \E answer \in IndexSearch(engine.index, EmbedText(Encode(query)), k) :
            Finish(t, [query |-> query] @@
                      SearchResponse(engine,
                          SearchByText(engine, EmbedText(Encode(query)), k, answer)))
    /\ UNCHANGED <<cache, loads, returned>>
    /\ Frame

\* GET /similar/{book_id}, lines 90-133: engine.search_by_key (engine.py lines
\* 121-154) and the response built from what it returns
ApiSimilarCall(t) ==
    /\ pc[t] = "idle"
    /\ engine # NoEngine
    /\ \E key \in QueryKeys, k \in RequestKs :
         IF ~KeyKnown(engine, key)
         THEN Finish(t, SimilarResponse(engine, SearchByKeyUnknown(key, k)))
         ELSE \E answer \in IndexSearch(engine.index,
                    Reconstruct(engine.index, FirstRowOf(engine.meta, key)), k + 1) :
                 Finish(t, SimilarResponse(engine, SearchByKey(engine, key, k, answer)))
    /\ UNCHANGED <<cache, loads, returned>>
    /\ Frame

-----------------------------------------------------------------------------
(* The offline commands: embed_books and build_faiss_index *)

\* the keys of the embedding input table, in row order
InputTable == <<"A", "D", "E">>
BatchSizes == {1, 2}       \* --batch-size
Limits == {0, 2}           \* --limit, 0 = no limit

\* the output file of embed_books before its first run: absent, or a table left
\* there with a row whose embedding cell is null
PreTables == {<<>>, <<NullRow("B")>>, <<EmbRow("C"), NullRow("B"), EmbRow("B")>>}

\* the files before any index has been built
FilesBeforeBuild(pre) ==
    [index |-> <<>>, meta |-> [cols |-> {}, rows |-> <<>>], joined |-> ContentTable,
     embeddings |-> pre, present |-> {"joined"}]

EngineIdle == UNCHANGED <<engine, cache, loads, returned, pc, mdl, obs, call>>

\* embed_books main up to the batch loop (lines 163-196): the whole input, or its
\* first `limit` rows, is to be embedded, whatever the output file already holds
EmbedStart(bs, limit) ==
    /\ job.pc = "idle"
    /\ job.runs < MaxRuns
    /\ job' = [pc |-> "run", done |-> 0, bs |-> bs, runs |-> job.runs + 1,
               total |-> IF limit > 0 THEN Min(limit, Len(InputTable))
                         ELSE Len(InputTable),
               last |-> "embed_started"]
    /\ UNCHANGED files
    /\ EngineIdle

\* append_parquet(output_path, df_new): the old rows, then the new ones
AppendParquet(old, new) == old \o new

\* one pass of the batch loop (lines 198-228): the next batch is embedded and
\* appended to the output file
EmbedBatch ==
    /\ job.pc = "run"
    /\ LET cnt == Min(job.bs, job.total - job.done)
           df_new == [i \in 1..cnt |-> EmbRow(InputTable[job.done + i])]
           done == job.done + cnt
       IN  /\ files' = [files EXCEPT !.embeddings = AppendParquet(@, df_new)]
           /\ job' = [job EXCEPT !.done = done,
                                 !.pc = IF done = job.total THEN "idle" ELSE "run",
                                 !.last = IF done = job.total THEN "embed_done"
                                          ELSE "embed_batch"]
    /\ EngineIdle

\* the provider raises in a batch (lines 203-211): the run ends, the batches
\* appended so far stay in the output file
EmbedFail ==
    /\ job.pc = "run"
    /\ job' = [job EXCEPT !.pc = "idle", !.last = "embed_failed"]
    /\ UNCHANGED files
    /\ EngineIdle

\* build_faiss_index main on a table with at least one embedded row
BuildIndex ==
    /\ DropNa(files.embeddings) # <<>>
    /\ LET built == BuildFaissIndex(files.embeddings)
       IN  files' = [files EXCEPT !.index = built.index, !.meta = built.meta,
                                  !.present = @ \cup {"index", "meta"}]
    /\ job' = [job EXCEPT !.last = "build_done"]
    /\ EngineIdle

\* build_faiss_index main where the table is absent or holds no embedded row:
\* read_parquet or the shape check (lines 48-50) raises, nothing is written
BuildFail ==
    /\ DropNa(files.embeddings) = <<>>
    /\ job' = [job EXCEPT !.last = "build_failed"]
    /\ UNCHANGED files
    /\ EngineIdle

\* build_faiss_index main up to its first write (lines 37-67): the index file is
\* replaced, the metadata file is still the old one
BuildWriteIndex ==
    /\ job.pc = "idle"
    /\ DropNa(files.embeddings) # <<>>
    /\ files' = [files EXCEPT !.index = BuildFaissIndex(files.embeddings).index,
                              !.present = @ \cup {"index"}]
    /\ job' = [job EXCEPT !.pc = "write_meta", !.last = "index_written"]
    /\ EngineIdle

\* build_faiss_index main, its second write (lines 69-74)
BuildWriteMeta ==
    /\ job.pc = "write_meta"
    /\ files' = [files EXCEPT !.meta = BuildFaissIndex(files.embeddings).meta,
                              !.present = @ \cup {"meta"}]
    /\ job' = [job EXCEPT !.pc = "idle", !.last = "build_done"]
    /\ EngineIdle

-----------------------------------------------------------------------------
(* embed_texts_openai: one batch sent to the provider, with retries *)

MaxAttempts == 5           \* for attempt in range(1, 6)
FirstBackoff == 2          \* backoff = 2.0

\* the batches of texts a call is made for, each text named by its book's key
Batches ==
    {<<k>> : k \in Range(InputTable)}
        \cup {<<k1, k2>> : k1 \in Range(InputTable), k2 \in Range(InputTable)}

Orderings(n) == {p \in [1..n -> 1..n] : Injective(p)}

\* sorted(resp.data, key=lambda x: x.index), then the embeddings in that order
SortedEmbeddings(data) ==
    [i \in 1..Len(data) |->
        data[CHOOSE j \in 1..Len(data) : data[j].index = i - 1].embedding]

OnlyCall == UNCHANGED <<files, engine, cache, loads, returned, pc, mdl, obs, job>>

\* embed_texts_openai(texts, model) up to the loop: lines 44-60
CallStart(texts) ==
    /\ call.pc = "none"
    /\ call' = [pc |-> "try", texts |-> texts, attempt |-> 1, backoff |-> FirstBackoff,
                slept |-> <<>>, result |-> <<>>]
    /\ OnlyCall

\* lines 63-66: the provider answers, its data in any order; the embeddings are
\* returned in the order of the texts
AttemptOk ==
    /\ call.pc = "try"
    /\ \E p \in Orderings(Len(call.texts)) :
          LET data == [j \in 1..Len(call.texts) |->
                          [index |-> p[j] - 1, embedding |-> CatalogVec[call.texts[p[j]]]]]
          IN  call' = [call EXCEPT !.pc = "returned", !.result = SortedEmbeddings(data)]
    /\ OnlyCall

\* mutant: the last failure is not raised
AttemptFailNeverRaises ==
    /\ call.pc = "try"
    /\ call' = [call EXCEPT !.pc = "sleep"]
    /\ OnlyCall

\* lines 67-70: the provider call raises; the fifth failure is raised again
AttemptFail ==
    /\ call.pc = "try"
    /\ call' = [call EXCEPT !.pc = IF call.attempt = MaxAttempts THEN "raised"
                                    ELSE "sleep"]
    /\ OnlyCall

\* lines 71-72 and the loop header: sleep, double the backoff, next attempt; line
\* 74 is where the loop would be left without return or raise
SleepAndRetry ==
    /\ call.pc = "sleep"
    /\ call' = [call EXCEPT !.slept = Append(@, call.backoff),
                            !.backoff = 2 * @,
                            !.attempt = @ + 1,
                            !.pc = IF call.attempt + 1 <= MaxAttempts THEN "try"
                                   ELSE "unreachable"]
    /\ OnlyCall

-----------------------------------------------------------------------------
(* Specifications *)

Step(t) ==
    \/ GetModelEnter(t)
    \/ GetModelCheck(t)
    \/ ModelLoad(t)
    \/ ModelLoadFail(t)
    \/ ModelStore(t)
    \/ GetModelReturn(t)
    \/ EmbedTextGotModel(t)
    \/ EncodeFail(t)
    \/ GetSnippetCall(t)
    \/ GetDescriptionCall(t)
    \/ ApiSearchCall(t)
    \/ ApiSimilarCall(t)
    \/ Return(t)

\* the service as deployed: engines of the default model, one caller
Next ==
    \/ Construct(DefaultModel)
    \/ Step(MainThread)

Spec == Init /\ [][Next]_vars

\* engines of any model identifier, one caller
NextSeq ==
    \/ \E m \in ModelIds : Construct(m)
    \/ Step(MainThread)

SeqSpec == InitSample /\ [][NextSeq]_vars

\* request threads interleave at every step of _get_model
NextConc ==
    \/ \E m \in ModelIds : Construct(m)
    \/ \E t \in Threads : Step(t)

ConcSpec == InitSample /\ [][NextConc]_vars

\* the sample files, whole or with one resource missing or the key column gone
LoadFiles ==
    {SampleFiles}
        \cup {[SampleFiles EXCEPT !.present = AllResources \ {r}] : r \in AllResources}
        \cup {[SampleFiles EXCEPT !.meta.cols = {"title"}]}

\* start-up on files that may not load, then one caller
NextLoad ==
    \/ \E m \in ModelIds : Construct(m)
    \/ \E m \in ModelIds : ConstructFail(m)
    \/ Step(MainThread)

LoadSpec == InitWith(LoadFiles) /\ [][NextLoad]_vars

\* the service on metadata tables with gaps in title and cover, one caller
EnrichSpec == InitWith(EnrichFiles) /\ [][Next]_vars

\* one provider call for a batch; every step that can be taken is taken in the end
NextRetry ==
    \/ \E texts \in Batches : CallStart(texts)
    \/ AttemptOk
    \/ AttemptFail
    \/ SleepAndRetry

RetrySpec == InitWith({SampleFiles}) /\ [][NextRetry]_vars /\ WF_vars(NextRetry)

\* files built earlier, the embeddings table having gained a row since
RebuildFiles ==
    {[FilesOf(ks) EXCEPT !.embeddings = @ \o <<EmbRow(k)>>] :
        ks \in {<<"A">>, <<"A", "D">>}, k \in {"B", "E"}}

\* the index is rebuilt, file by file, while the service may start and answer
NextRebuild ==
    \/ Construct(DefaultModel)
    \/ BuildWriteIndex
    \/ BuildWriteMeta
    \/ Step(MainThread)

RebuildSpec == InitWith(RebuildFiles) /\ [][NextRebuild]_vars

\* mutant: requests are served as soon as the engine is assigned
ServiceUpAtConstruct == engine # NoEngine

\* api/main.py startup, lines 14-22, has assigned the engine and its call of
\* engine._get_model() has returned: the server takes requests after startup only
ServiceUp == engine # NoEngine /\ returned[engine.embedding_model] # {}

\* the steps of the service's threads: the calls a request starts wait for
\* startup, whose own _get_model call the main thread makes
ServiceStep(t) ==
    \/ (ServiceUp \/ t = MainThread) /\ GetModelEnter(t)
    \/ ServiceUp /\ GetSnippetCall(t)
    \/ ServiceUp /\ GetDescriptionCall(t)
    \/ ServiceUp /\ ApiSimilarCall(t)
    \/ GetModelCheck(t)
    \/ ModelLoad(t)
    \/ ModelLoadFail(t)
    \/ ModelStore(t)
    \/ GetModelReturn(t)
    \/ EmbedTextGotModel(t)
    \/ EncodeFail(t)
    \/ ApiSearchCall(t)
    \/ Return(t)

\* the API service: startup, then request threads that interleave
NextService ==
    \/ engine = NoEngine /\ Construct(DefaultModel)
    \/ \E t \in Threads : ServiceStep(t)

ServiceSpec == InitSample /\ [][NextService]_vars

\* the offline pipeline: embedding runs and index builds in any order
NextPipe ==
    \/ \E bs \in BatchSizes, limit \in Limits : EmbedStart(bs, limit)
    \/ EmbedBatch
    \/ EmbedFail
    \/ BuildIndex
    \/ BuildFail

PipeSpec == InitWith({FilesBeforeBuild(pre) : pre \in PreTables}) /\ [][NextPipe]_vars

-----------------------------------------------------------------------------
(* Properties *)

N == Len(engine.index)

\* a /search request whose search_by_text call returned a list
TextDone == obs.op = "api_search" /\ obs.raw.outcome = "ok"

\* a /similar request whose search_by_key call returned a list
KeyDone == obs.op = "api_similar" /\ obs.raw.outcome = "ok"

AnswerRows(answer) == {answer[i].idx : i \in 1..Len(answer)}

UniqueKeys(meta) ==
    \A i, j \in 1..Len(meta.rows) : meta.rows[i].key = meta.rows[j].key => i = j

\* C1: search_by_text(query, topk) returns exactly min(topk, N) results, for
\* every topk >= 1, topk > N included.
C1_ResultCountIsMin ==
    TextDone => Len(obs.raw.results) = Min(obs.raw.topk, N)

\* C2: every result of search_by_text is resolved from a row position in
\* 0..N-1 that the index reported as a real neighbour, never from the label of
\* an unfilled slot.
C2_NoPaddingRow ==
    TextDone =>
        \A i \in 1..Len(obs.raw.results) : obs.raw.answer[i].idx \in 0..(N - 1)

\* C3: for a key of the metadata table and at least topk+1 indexed items, no
\* result of search_by_key(key, topk) has book_id equal to key.
C3_SelfExcluded ==
    (KeyDone /\ N >= obs.raw.topk + 1) =>
        /\ \A i \in 1..Len(obs.raw.results) : obs.raw.results[i].book_id # obs.raw.key
        /\ \A i \in 1..Len(obs.results) : obs.results[i].book_id # obs.raw.key

\* C3 witness: the seed was among the rows the index reported and was dropped
C3_Witness ==
    /\ KeyDone
    /\ N >= obs.raw.topk + 1
    /\ obs.raw.seedRow \in AnswerRows(obs.raw.answer)
    /\ Len(obs.raw.results) = obs.raw.topk

\* C4: search_by_key on a key the metadata table does not hold raises the
\* not-found error before it touches the index, returns no list, and /similar
\* answers with an error, not with a normal response.
C4_UnknownKeyRaises ==
    (obs.op = "api_similar" /\ obs.raw.key \notin MetaKeys(engine.meta)) =>
        /\ obs.raw.outcome = "ValueError"
        /\ obs.raw.indexOps = <<>>
        /\ "results" \notin DOMAIN obs.raw
        /\ obs.status = 500
        /\ "results" \notin DOMAIN obs

C4_Witness ==
    /\ obs.op = "api_similar"
    /\ obs.raw.key = AbsentKey
    /\ obs.status = 500

\* C5: under any interleaving of threads calling _get_model with the same
\* identifier, the model constructor runs at most once for that identifier and
\* every caller receives the same model object.
C5_SingleInitialisation ==
    \A m \in ModelIds : loads[m] <= 1 /\ Cardinality(returned[m]) <= 1

\* C6: for a key of the metadata table and at least topk+1 indexed items,
\* search_by_key(key, topk) returns exactly topk results, whether or not the
\* seed is among the topk+1 rows the index reported.
C6_ExactlyTopk ==
    (KeyDone /\ N >= obs.raw.topk + 1) => Len(obs.raw.results) = obs.raw.topk

\* C7: in search_by_key, whenever the seed key is among the topk+1 rows the
\* index reported, it is at the first position of the index's answer.
C7_SeedIsFirst ==
    KeyDone =>
        ((\E i \in 1..Len(obs.raw.answer) :
             /\ obs.raw.answer[i].idx # PadLabel
             /\ Iloc(engine.meta.rows, obs.raw.answer[i].idx).key = obs.raw.key)
         => Iloc(engine.meta.rows, obs.raw.answer[1].idx).key = obs.raw.key)

\* C7 as amended: whenever the seed's row is among the topk+1 rows the index
\* reported, it carries the highest score of the answer, so every row reported
\* ahead of it ties with it; it is at the first position when no other reported
\* row has that score.
C7_SeedTiesForTop ==
    KeyDone =>
        \A i \in 1..Len(obs.raw.answer) :
            obs.raw.answer[i].idx = obs.raw.seedRow =>
                /\ obs.raw.answer[i].score = obs.raw.answer[1].score
                /\ (\A j \in 1..Len(obs.raw.answer) :
                        j # i => obs.raw.answer[j].score # obs.raw.answer[i].score) => i = 1

\* C7 witness: the seed's row was reported behind the row of another book
C7_Witness ==
    /\ KeyDone
    /\ UniqueKeys(engine.meta)
    /\ \E i \in 2..Len(obs.raw.answer) : obs.raw.answer[i].idx = obs.raw.seedRow

\* C6, C7 witness of the other case: the seed's row is not among the topk+1
\* rows the index reported, and topk results are returned
SeedOutsideWindow ==
    /\ KeyDone
    /\ UniqueKeys(engine.meta)
    /\ N >= obs.raw.topk + 1
    /\ obs.raw.seedRow \notin AnswerRows(obs.raw.answer)
    /\ Len(obs.raw.results) = obs.raw.topk

\* C6 where every key occurs once in the metadata table
C6_ExactlyTopkUniqueKeys ==
    (KeyDone /\ UniqueKeys(engine.meta) /\ N >= obs.raw.topk + 1)
        => Len(obs.raw.results) = obs.raw.topk

\* C8: search_by_text returns its results in exactly the order the index
\* reported the rows, one result per reported slot, so the scores of the list
\* are non-increasing.
C8_IndexOrderKept ==
    TextDone =>
        /\ Len(obs.raw.results) = Len(obs.raw.answer)
        /\ \A i \in 1..Len(obs.raw.results) :
              /\ obs.raw.results[i].score = obs.raw.answer[i].score
              /\ obs.raw.results[i].book_id =
                    Iloc(engine.meta.rows, obs.raw.answer[i].idx).key
        /\ \A i, j \in 1..Len(obs.raw.results) :
              i < j => obs.raw.results[i].score >= obs.raw.results[j].score

\* C8 witness: a list of rows with different scores and different keys
C8_Witness ==
    /\ TextDone
    /\ Len(obs.raw.results) >= 2
    /\ obs.raw.results[1].score > obs.raw.results[2].score
    /\ obs.raw.results[1].book_id # obs.raw.results[2].book_id
    /\ obs.raw.answer[2].idx # PadLabel

\* C9: with one caller, constructing an engine neither loads a model nor
\* changes the cache; each identifier is loaded at most once, when an engine of
\* that identifier first needs it; every caller of that identifier gets that
\* one object; loading one identifier leaves the other's entry alone.
C9_LazyMemoised ==
    [][ /\ (engine' # engine => (cache' = cache /\ loads' = loads /\ returned' = returned))
        /\ \A m \in ModelIds :
              /\ loads'[m] <= 1
              /\ loads'[m] # loads[m] => (m = engine.embedding_model /\ cache[m] = 0)
              /\ cache'[m] # cache[m] => (m = engine.embedding_model /\ cache[m] = 0)
              /\ returned'[m] \subseteq {cache'[m]}
              /\ Cardinality(returned'[m]) <= 1 ]_vars

\* C9 witness: an engine of the second identifier has just been handed its model
\* while the first identifier's entry, loaded earlier, is still in the cache
C9_Witness ==
    /\ obs.op = "get_model"
    /\ obs.outcome = "ok"
    /\ obs.model # DefaultModel
    /\ cache[DefaultModel] # 0
    /\ returned[DefaultModel] # {}
    /\ \A m \in ModelIds : loads[m] = 1

\* C10: whatever calls have run or are running, the engine's index, metadata
\* table and content table are those loaded at construction.
C10_ResourcesFrozen ==
    engine # NoEngine =>
        /\ engine.index = files.index
        /\ engine.meta = files.meta
        /\ engine.joined = files.joined

\* C10 witness: one request is answered while another thread is inside
\* search_by_text with the model cache already filled
C10_Witness ==
    /\ obs.op \in {"api_similar", "get_snippet", "get_description"}
    /\ \E t \in Threads : pc[t] = "encode"
    /\ cache[engine.embedding_model] # 0

\* C11: search_by_key takes its query vector from index reconstruction at the
\* seed key's row, hands exactly that stored vector to the index search, and
\* neither loads nor reads the embedding model: the model cache, the count of
\* model loads and the models handed out are as they were before the call.
C11_KeyPathNoEmbedding ==
    [][ (obs = NoObs /\ obs'.op = "api_similar") =>
            /\ cache' = cache /\ loads' = loads /\ returned' = returned
            /\ mdl' = mdl
            /\ obs'.raw.outcome = "ok" =>
                  /\ obs'.raw.vecOps = <<"reconstruct">>
                  /\ engine.meta.rows[obs'.raw.seedRow + 1].key = obs'.raw.key
                  /\ obs'.raw.qvec = engine.index[obs'.raw.seedRow + 1]
                  /\ obs'.raw.answer \in
                        IndexSearch(engine.index, engine.index[obs'.raw.seedRow + 1],
                                    obs'.raw.topk + 1) ]_vars

\* C11 witness: a search by the key of a later row, whose vector differs from
\* the first row's, answered while no model has ever been loaded
C11_Witness ==
    /\ KeyDone
    /\ obs.raw.seedRow > 0
    /\ obs.raw.qvec # engine.index[1]
    /\ \A m \in ModelIds : loads[m] = 0 /\ cache[m] = 0

\* C12: get_snippet(key, n) returns, for a key with or without a content row
\* and n >= 0, a string of at most n+3 characters without raising, and leaves
\* the engine as it was, so the same call again returns the same string.
C12_SnippetTotalBounded ==
    [][ (obs = NoObs /\ obs'.op = "get_snippet") =>
            /\ "value" \in DOMAIN obs'
            /\ Len(obs'.value) <= obs'.n + 3
            /\ engine' = engine
            /\ obs'.value = GetSnippet(engine', obs'.key, obs'.n) ]_vars

\* C12 witness: a description cut at n = 2, the result n + 3 characters long
C12_Witness ==
    /\ obs.op = "get_snippet"
    /\ obs.key = "A"
    /\ obs.n = 2
    /\ Len(obs.value) = 5

Whitespace == {" ", "\n", "\t"}

\* C13: the engine's snippet is cut from the description after its newlines
\* were collapsed to spaces and the surrounding whitespace trimmed: no snippet
\* holds a newline or begins with whitespace.
C13_SnippetNormalised ==
    obs.op = "get_snippet" =>
        /\ "\n" \notin Range(obs.value)
        /\ obs.value # <<>> => obs.value[1] \notin Whitespace

\* the key has no content row, or a null or empty description
NoText(eng, key) ==
    \/ JoinedMatch(eng.joined, key) = <<>>
    \/ JoinedMatch(eng.joined, key)[1].description \in {NullText, <<>>}

\* C14: for a key without a content row, or with a null or empty description,
\* get_snippet and get_description return the empty string and the results of
\* both searches carry an empty snippet; for a key with a description,
\* get_description returns the whole of it.
C14_EmptyWhenNoText ==
    /\ obs.op = "get_snippet" =>
          (NoText(engine, obs.key) => obs.value = <<>>)
    /\ obs.op = "get_description" =>
          obs.value = IF NoText(engine, obs.key) THEN <<>>
                      ELSE JoinedMatch(engine.joined, obs.key)[1].description
    /\ TextDone =>
          \A i \in 1..Len(obs.results) :
              NoText(engine, obs.results[i].book_id) =>
                  /\ obs.raw.results[i].snippet = <<>>
                  /\ obs.results[i].snippet = <<>>
                  /\ obs.results[i].full_description = <<>>
    /\ KeyDone =>
          /\ \A i \in 1..Len(obs.results) :
                NoText(engine, obs.results[i].book_id) =>
                    obs.raw.results[i].snippet = <<>> /\ obs.results[i].snippet = <<>>
          /\ NoText(engine, obs.raw.key) => obs.seed.snippet = <<>>

\* C14 witness: one list holds a book with a description and a book with a null one
C14_Witness ==
    /\ TextDone
    /\ \E i, j \in 1..Len(obs.results) :
          /\ obs.results[i].book_id = "B" /\ obs.results[i].snippet = <<>>
          /\ obs.results[j].book_id = "A" /\ obs.results[j].full_description # <<>>

\* C15: construction raises, and no engine is handed to the caller, when the
\* index, metadata or content file is missing or the metadata table has no key
\* column; an engine exists only with all three resources loaded.
C15_LoadFailsFast ==
    /\ ~(files.present = AllResources /\ "key" \in files.meta.cols) =>
          engine = NoEngine
    /\ engine # NoEngine =>
          /\ engine.index = files.index
          /\ engine.meta = files.meta
          /\ engine.joined = files.joined
    /\ obs.op = "construct" =>
          /\ obs.outcome \in {"IndexReadError", "MetaReadError", "KeyError",
                               "JoinedReadError"}
          /\ engine = NoEngine

\* C15 witness: construction has just raised on a metadata table without key column
C15_Witness ==
    /\ obs.op = "construct"
    /\ obs.outcome = "KeyError"
    /\ files.present = AllResources
    /\ engine = NoEngine

C17_MetaKeysUnique == UniqueKeys(files.meta)

\* C18: an index build leaves as many metadata rows as vectors, and row i of
\* the metadata table holds the key of the i-th input row with an embedding,
\* whose normalised embedding is vector i.
C18_BuildKeepsAlignment ==
    [][ (files'.index # files.index \/ files'.meta # files.meta) =>
            LET kept == SelectSeq(files.embeddings,
                                  LAMBDA r : r.embedding # NullEmbedding)
            IN  /\ Len(files'.meta.rows) = Len(files'.index)
                /\ Len(files'.index) = Len(kept)
                /\ \A i \in 1..Len(kept) :
                      /\ files'.meta.rows[i].key = kept[i].key
                      /\ files'.index[i] = BuildNormalize(kept[i].embedding) ]_vars

\* C18 witness: an index built from a table whose second row has a null
\* embedding; the third input row is at the second position
C18_Witness ==
    /\ "index" \in files.present
    /\ Len(files.embeddings) >= 4
    /\ files.embeddings[2].embedding = NullEmbedding
    /\ Len(files.index) = Len(files.embeddings) - 1
    /\ files.meta.rows[2].key = files.embeddings[3].key
    /\ files.meta.rows[3].key = files.embeddings[4].key

\* C19: each result of search_by_key is what search_by_text resolves for the
\* same reported row: book_id, score, title, snippet and cover id.
C19_SameFieldsAsText ==
    KeyDone =>
        \A i \in 1..Len(obs.raw.results) :
            \E j \in 1..Len(obs.raw.answer) :
                obs.raw.results[i] = TextResults(engine, obs.raw.answer)[j]

\* C20: with unique metadata keys no book_id occurs twice in the list
\* search_by_text or search_by_key returns, for every topk >= 1.
C20_NoDuplicateBookIds ==
    ((TextDone \/ KeyDone) /\ UniqueKeys(engine.meta)) =>
        \A i, j \in 1..Len(obs.raw.results) :
            obs.raw.results[i].book_id = obs.raw.results[j].book_id => i = j

\* C20 where the index can fill every slot it is asked for
C20_NoDuplicatesWhenFilled ==
    ((TextDone \/ KeyDone) /\ UniqueKeys(engine.meta)
        /\ \A i \in 1..Len(obs.raw.answer) : obs.raw.answer[i].idx # PadLabel) =>
        \A i, j \in 1..Len(obs.raw.results) :
            obs.raw.results[i].book_id = obs.raw.results[j].book_id => i = j

\* C21: when the model cannot be loaded or the encode call fails, the call
\* ends with an error handed to the caller and with no result list, empty or
\* not; a failed load leaves the cache without an entry for the identifier.
C21_EmbeddingFailurePropagates ==
    [][ \A t \in Threads :
          /\ (pc[t] = "construct" /\ pc'[t] = "done") =>
                /\ obs'.outcome = "ModelError"
                /\ "results" \notin DOMAIN obs'
                /\ cache' = cache
                /\ cache'[engine.embedding_model] = 0
          /\ (pc[t] = "encode" /\ pc'[t] = "done" /\ obs'.raw.outcome = "EncodeError") =>
                /\ obs'.status = 500
                /\ obs'.error = "EncodeError"
                /\ "results" \notin DOMAIN obs'
                /\ "results" \notin DOMAIN obs'.raw
                /\ cache' = cache ]_vars

\* C21 witness: the model load has just failed and the cache has no entry
C21_Witness ==
    /\ obs.op = "get_model"
    /\ obs.outcome = "ModelError"
    /\ engine # NoEngine
    /\ cache[engine.embedding_model] = 0

C22_EngineListComplete ==
    /\ TextDone =>
          /\ Len(obs.raw.results) = Len(obs.raw.answer)
          /\ \A i \in 1..Len(obs.raw.results) :
                /\ "title" \notin engine.meta.cols => obs.raw.results[i].title = ""
                /\ "cover_i" \notin engine.meta.cols => obs.raw.results[i].cover_i = NoCover
                /\ obs.raw.results[i].cover_i # 0
                /\ NoText(engine, obs.raw.results[i].book_id) =>
                      obs.raw.results[i].snippet = <<>>
    /\ KeyDone =>
          /\ Len(obs.raw.results) =
                Min(obs.raw.topk, Len(KeyResults(engine, obs.raw.key, obs.raw.answer)))
          /\ \A i \in 1..Len(obs.raw.results) :
                /\ "title" \notin engine.meta.cols => obs.raw.results[i].title = ""
                /\ NoText(engine, obs.raw.results[i].book_id) =>
                      obs.raw.results[i].snippet = <<>>

\* the engine has returned a list holding a row whose title is null
NullTitleReturned ==
    /\ obs.op \in {"api_search", "api_similar"}
    /\ obs.raw.outcome = "ok"
    /\ \E i \in 1..Len(obs.raw.results) : obs.raw.results[i].title = NullTitle

\* the sleeps of a call whose attempts 1..n have failed
ExpectedSleeps(n) == Take(<<2, 4, 8, 16>>, n)

\* C23: one embed_texts_openai call makes at most 5 attempts, returns the
\* embeddings of the first attempt that succeeds, has slept 2, 4, 8, 16 seconds
\* after its 1st to 4th failure and not after the 5th, raises the 5th failure,
\* never reaches the line after the loop, and always ends.
C23_BoundedRetry ==
    /\ [](/\ call.pc # "unreachable"
          /\ call.attempt <= 5
          /\ call.pc # "none" => call.slept = ExpectedSleeps(call.attempt - 1)
          /\ call.pc = "raised" => call.attempt = 5
          /\ call.pc = "sleep" => call.attempt < 5
          /\ call.pc = "returned" =>
                call.result = [i \in 1..Len(call.texts) |-> CatalogVec[call.texts[i]]])
    /\ [][call.pc \in {"returned", "raised"} => call' = call]_vars
    /\ (call.pc = "try") ~> (call.pc \in {"returned", "raised"})

\* C23 witness: the call succeeded at its fifth attempt, after four sleeps, for
\* a batch of two different texts
C23_Witness ==
    /\ call.pc = "returned"
    /\ call.attempt = 5
    /\ call.slept = <<2, 4, 8, 16>>
    /\ Len(call.texts) = 2
    /\ call.texts[1] # call.texts[2]

\* C23 witness of the other end: the fifth failure was raised
RetriesExhausted ==
    /\ call.pc = "raised"
    /\ call.slept = <<2, 4, 8, 16>>

\* the rows other than the seed's, and the score of a row against the query
OtherRows == (0..(N - 1)) \ {obs.raw.seedRow}

ScoreOf(r) == Dot(obs.raw.qvec, engine.index[r + 1])

\* the sets of topk other rows that score strictly higher than every other row
\* left out: there is one when no tie sits at the cut-off
StrictTops ==
    {T \in SUBSET OtherRows :
        /\ Cardinality(T) = obs.raw.topk
        /\ \A r \in T, q \in OtherRows \ T : ScoreOf(r) > ScoreOf(q)}

\* C24: with unique keys, at least topk+1 rows and no tie at the cut-off,
\* search_by_key(key, topk) returns exactly the topk rows other than the seed
\* with the highest inner product to the seed's stored vector, each with that
\* score, in descending order.
C24_TopkOtherRows ==
    (KeyDone /\ UniqueKeys(engine.meta) /\ N >= obs.raw.topk + 1) =>
        \A T \in StrictTops :
            /\ Len(obs.raw.results) = obs.raw.topk
            /\ {obs.raw.results[i].book_id : i \in 1..Len(obs.raw.results)}
                  = {engine.meta.rows[r + 1].key : r \in T}
            /\ \A i \in 1..Len(obs.raw.results) :
                  obs.raw.results[i].score =
                      ScoreOf(FirstRowOf(engine.meta, obs.raw.results[i].book_id))
            /\ \A i, j \in 1..Len(obs.raw.results) :
                  i < j => obs.raw.results[i].score >= obs.raw.results[j].score

\* C24 witness: three books, the seed in the window, a nearer and a farther
\* other book, the nearer one returned
C24_Witness ==
    /\ KeyDone
    /\ UniqueKeys(engine.meta)
    /\ N = 3
    /\ obs.raw.topk = 1
    /\ StrictTops # {}
    /\ obs.raw.seedRow \in AnswerRows(obs.raw.answer)
    /\ \E r \in OtherRows : ScoreOf(r) < obs.raw.results[1].score

\* C24, the other case: the seed outside the window while no tie sits at the cut-off
SeedOutsideNoTie ==
    /\ KeyDone
    /\ UniqueKeys(engine.meta)
    /\ N >= obs.raw.topk + 1
    /\ StrictTops # {}
    /\ obs.raw.seedRow \notin AnswerRows(obs.raw.answer)

\* C25: an engine exists only where the metadata table it loaded has as many
\* rows as the index it loaded has vectors; construction fails when they differ.
C25_DriftRejectedAtLoad ==
    engine # NoEngine => Len(engine.meta.rows) = Len(engine.index)

\* C25, what follows: an engine loaded between the two writes of a rebuild
\* answers a search with an error
DriftedSearchFails ==
    /\ obs.op = "api_search"
    /\ obs.status = 500
    /\ obs.error = "IndexError"
    /\ Len(engine.meta.rows) < Len(engine.index)

\* C26: /search and /similar call the engine only with a non-empty query and
\* with 1 <= k <= 50; any other request is rejected before the engine is called.
C26_OnlyValidRequestsReachEngine ==
    /\ (obs.op = "api_search" /\ "query" \in DOMAIN obs) =>
          /\ obs.query # ""
          /\ obs.raw.topk \in 1..MaxK
    /\ obs.op = "api_similar" => obs.raw.topk \in 1..MaxK

\* C26, one of the cases: an empty query was searched for and answered
EmptyQueryAnswered ==
    /\ TextDone
    /\ obs.query = ""
    /\ obs.status = 200

\* C27: in the API service no request runs before startup has assigned the
\* engine and loaded the configured model: wherever a handler executes, the
\* engine is set and the cache holds the identifier, and no request thread,
\* under any interleaving, loads a model.
C27_WarmBeforeRequests ==
    /\ (\/ obs.op \in {"api_search", "api_similar"}
        \/ \E t \in Threads : pc[t] = "encode"
        \/ \E u \in Threads \ {MainThread} : pc[u] # "idle") =>
            engine # NoEngine /\ cache[DefaultModel] # 0
    /\ \A t \in Threads \ {MainThread} : pc[t] \notin {"construct", "store"}
    /\ (engine # NoEngine /\ returned[DefaultModel] # {}) =>
            /\ cache[DefaultModel] # 0
            /\ \A t \in Threads : pc[t] \notin {"construct", "store"}
    /\ loads[DefaultModel] <= 1
    /\ Cardinality(returned[DefaultModel]) <= 1

\* C27 witness: two requests overlap, one answered while the other is inside
\* search_by_text, the model having been loaded once
C27_Witness ==
    /\ \E t \in Threads \ {MainThread} : pc[t] = "encode"
    /\ obs.op = "api_similar"
    /\ pc[MainThread] = "done"
    /\ loads[DefaultModel] = 1

====
